---- MODULE Spec2Model ----
(***************************************************************************)
(* Model of qt_gh-update-checker: SemVer::parse, toGithubApiUrl, http_get, *)
(* check_github_update (include/qt_gh-update-checker.hpp) and the command  *)
(* line program (src/cli_main.cpp).                                        *)
(*                                                                         *)
(* A QString is a sequence of one-character strings.                       *)
(***************************************************************************)
EXTENDS Integers, Sequences, FiniteSets, TLC

VARIABLES
    \* ---- SemVer::parse applied to one text (SpecParse, SpecTriple)
    text,        \* the argument v of SemVer::parse
    runs,        \* the three digit runs the text was rendered from (SpecTriple)
    parsed,      \* outcome of SemVer::parse(text)
    \* ---- toGithubApiUrl applied to one url (SpecResolve)
    url,         \* the argument of toGithubApiUrl
    res1,        \* toGithubApiUrl(url)
    res2,        \* toGithubApiUrl applied to the value of res1
    resGit,      \* toGithubApiUrl(url + ".git")
    \* ---- check_github_update (Spec, SpecCli)
    pc,          \* position inside check_github_update
    repoUrl,     \* parameter repoUrl
    localVersion,\* parameter localVersion
    apiUrl,      \* local apiUrl
    gets,        \* number of QNetworkAccessManager::get calls of this call
    reply,       \* the finished QNetworkReply
    obj,         \* the QJsonObject of the response
    latest,      \* local latest
    local,       \* local SemVer local
    remote,      \* local SemVer remote
    info,        \* the returned UpdateInfo
    err,         \* the std::runtime_error thrown out of check_github_update
    steps,       \* history: the steps of check_github_update entered so far
    \* ---- main (SpecCli)
    mpc,         \* position inside main
    args,        \* app.arguments()
    jsonMode,    \* local jsonMode
    out,         \* what main printed
    exitCode     \* value returned by main

parseVars   == <<text, runs, parsed>>
resolveVars == <<url, res1, res2, resGit>>
checkVars   == <<pc, repoUrl, localVersion, apiUrl, gets, reply, obj, latest,
                 local, remote, info, err, steps>>
cliVars     == <<mpc, args, jsonMode, out, exitCode>>
vars        == <<parseVars, resolveVars, checkVars, cliVars>>

-----------------------------------------------------------------------------
\* Bounds of the model

\* longest text given to SemVer::parse in SpecParse
MaxLen == 5
\* most leading zeros written in front of a digit run in SpecTriple
MaxZeros == 1
\* most pieces appended after the host part of a url in SpecResolve
MaxTail == 4
\* most command line arguments after the program name in SpecCli
MaxArgs == 4
\* largest version component of the versions and tags of Spec
MaxVer == 1

-----------------------------------------------------------------------------
\* QString helpers

Str0 == <<>>

DigitChars == <<"0", "1", "2", "3", "4", "5", "6", "7", "8", "9">>

IsDigit(c) == \E k \in 1..10 : DigitChars[k] = c

DigitVal(c) == (CHOOSE k \in 1..10 : DigitChars[k] = c) - 1

\* QString::contains(sub), case sensitive
Contains(s, sub) ==
    \E i \in 1..(Len(s) - Len(sub) + 1) : SubSeq(s, i, i + Len(sub) - 1) = sub

\* QString::endsWith(suf)
EndsWith(s, suf) ==
    /\ Len(s) >= Len(suf)
    /\ SubSeq(s, Len(s) - Len(suf) + 1, Len(s)) = suf

\* QString::chop(n)
Chop(s, n) == IF n >= Len(s) THEN Str0 ELSE SubSeq(s, 1, Len(s) - n)

\* last index of the longest run of digits (digit) or of non-'/' characters
\* that starts at position i of s; i - 1 when there is none
RECURSIVE RunEnd(_, _, _)
RunEnd(s, i, digit) ==
    IF i <= Len(s) /\ (IF digit THEN IsDigit(s[i]) ELSE s[i] # "/")
    THEN RunEnd(s, i + 1, digit)
    ELSE i - 1

\* value of a digit sequence read in base 10 (only used below 2^31)
RECURSIVE DecValue(_)
DecValue(s) ==
    IF s = Str0 THEN 0
    ELSE DecValue(SubSeq(s, 1, Len(s) - 1)) * 10 + DigitVal(s[Len(s)])

RECURSIVE StripZeros(_)
StripZeros(s) ==
    IF Len(s) > 1 /\ s[1] = "0" THEN StripZeros(Tail(s)) ELSE s

\* lexicographic s <= t for digit sequences of equal length
RECURSIVE DigitsLeq(_, _)
DigitsLeq(s, t) ==
    IF s = Str0 THEN TRUE
    ELSE IF DigitVal(s[1]) # DigitVal(t[1]) THEN DigitVal(s[1]) < DigitVal(t[1])
    ELSE DigitsLeq(Tail(s), Tail(t))

\* std::numeric_limits<int>::max() of the 32-bit int fields, in digits
IntMaxDigits == <<"2", "1", "4", "7", "4", "8", "3", "6", "4", "7">>

FitsInt(s) ==
    LET d == StripZeros(s) IN
    \/ Len(d) < Len(IntMaxDigits)
    \/ Len(d) = Len(IntMaxDigits) /\ DigitsLeq(d, IntMaxDigits)

\* QString::toInt() on a run of digits: the value, or 0 when it does not fit int
toInt(s) == IF s # Str0 /\ FitsInt(s) THEN DecValue(StripZeros(s)) ELSE 0

-----------------------------------------------------------------------------
\* SemVer::parse

NoMatch == [hasMatch |-> FALSE, cap1 |-> Str0, cap2 |-> Str0, cap3 |-> Str0]

\* (\d+)\.(\d+)(?:\.(\d+))? tried with the first digit at position j
DigitsMatchAt(s, j) ==
    LET e1 == RunEnd(s, j, TRUE)
        e2 == RunEnd(s, e1 + 2, TRUE)
        e3 == RunEnd(s, e2 + 2, TRUE)
    IN  IF /\ e1 >= j
           /\ e1 + 1 <= Len(s) /\ s[e1 + 1] = "."
           /\ e2 >= e1 + 2
        THEN [hasMatch |-> TRUE,
              cap1 |-> SubSeq(s, j, e1),
              cap2 |-> SubSeq(s, e1 + 2, e2),
              cap3 |-> IF e2 + 1 <= Len(s) /\ s[e2 + 1] = "." /\ e3 >= e2 + 2
                       THEN SubSeq(s, e2 + 2, e3) ELSE Str0]
        ELSE NoMatch

\* v?(\d+)\.(\d+)(?:\.(\d+))? tried at position i: greedy v?, then without it
VersionMatchAt(s, i) ==
    IF i <= Len(s) /\ s[i] = "v" /\ DigitsMatchAt(s, i + 1).hasMatch
    THEN DigitsMatchAt(s, i + 1)
    ELSE DigitsMatchAt(s, i)

\* QRegularExpression::match: anchored at the start only
VersionMatchAnchored(s) == VersionMatchAt(s, 1)

\* QRegularExpression::match: the match at the leftmost position that has one
VersionMatch(s) ==
    IF \E i \in 1..Len(s) : VersionMatchAt(s, i).hasMatch
    THEN VersionMatchAt(s, CHOOSE i \in 1..Len(s) :
             /\ VersionMatchAt(s, i).hasMatch
             /\ \A k \in 1..(i - 1) : ~VersionMatchAt(s, k).hasMatch)
    ELSE NoMatch

NoSemVer == [major |-> 0, minor |-> 0, patch |-> 0]
NoError  == [msg |-> "", arg |-> Str0]

SemVer_parse(v) ==
    LET m == VersionMatch(v) IN
    IF ~m.hasMatch
    THEN [ok |-> FALSE, sv |-> NoSemVer,
          err |-> [msg |-> "Invalid SemVer: ", arg |-> v]]
    ELSE [ok |-> TRUE,
          sv |-> [major |-> toInt(m.cap1),
                  minor |-> toInt(m.cap2),
                  patch |-> IF m.cap3 = Str0 THEN 0 ELSE toInt(m.cap3)],
          err |-> NoError]

-----------------------------------------------------------------------------
\* Values of the variables a specification does not use

NotParsed == [done |-> FALSE, ok |-> FALSE, sv |-> NoSemVer, err |-> NoError]
NotResolved == [done |-> FALSE, ok |-> FALSE, val |-> Str0, err |-> NoError]

ParseIdle   == text = Str0 /\ runs = <<>> /\ parsed = NotParsed
ResolveIdle == url = Str0 /\ res1 = NotResolved /\ res2 = NotResolved
               /\ resGit = NotResolved

-----------------------------------------------------------------------------
\* SemVer::parse as a step: parsed := SemVer::parse(text)

ParseText ==
    /\ ~parsed.done
    /\ parsed' = [done |-> TRUE,
                  ok   |-> SemVer_parse(text).ok,
                  sv   |-> SemVer_parse(text).sv,
                  err  |-> SemVer_parse(text).err]
    /\ UNCHANGED <<text, runs, resolveVars, checkVars, cliVars>>

\* characters the texts of SpecParse are made of
ParseAlphabet == {"v", "0", "1", "2", ".", "-"}

RECURSIVE StringsUpTo(_, _)
StringsUpTo(alphabet, n) ==
    IF n = 0 THEN {Str0}
    ELSE LET shorter == StringsUpTo(alphabet, n - 1) IN
         shorter \cup {Append(s, c) : s \in shorter, c \in alphabet}

Ex_v1_2 == <<"v", "1", ".", "2">>
Ex_1_2_3_beta == <<"1", ".", "2", ".", "3", "-", "b", "e", "t", "a">>
Ex_release_2_0_0_rc1 ==
    <<"r", "e", "l", "e", "a", "s", "e", "-", "2", ".", "0", ".", "0", "-",
      "r", "c", "1">>
Ex_not_a_version ==
    <<"n", "o", "t", "-", "a", "-", "v", "e", "r", "s", "i", "o", "n">>

ParseTexts ==
    StringsUpTo(ParseAlphabet, MaxLen)
        \cup {Ex_v1_2, Ex_1_2_3_beta, Ex_release_2_0_0_rc1, Ex_not_a_version}

-----------------------------------------------------------------------------
\* toGithubApiUrl

\* "api.github.com"
ApiHost == <<"a", "p", "i", ".", "g", "i", "t", "h", "u", "b", ".", "c", "o", "m">>
\* "https://github.com/", the literal head of the pattern
WebHead ==
    <<"h", "t", "t", "p", "s", ":", "/", "/",
      "g", "i", "t", "h", "u", "b", ".", "c", "o", "m", "/">>
\* ".git"
DotGit == <<".", "g", "i", "t">>
\* "https://api.github.com/repos/"
ApiHead == <<"h", "t", "t", "p", "s", ":", "/", "/">> \o ApiHost
               \o <<"/", "r", "e", "p", "o", "s", "/">>
\* "/releases/latest"
ApiTail == <<"/", "r", "e", "l", "e", "a", "s", "e", "s", "/",
             "l", "a", "t", "e", "s", "t">>

NoUrlMatch == [hasMatch |-> FALSE, cap1 |-> Str0, cap2 |-> Str0]

\* https://github\.com/([^/]+)/([^/]+) tried at position i
UrlMatchAt(s, i) ==
    LET o1 == i + Len(WebHead)
        e1 == RunEnd(s, o1, FALSE)
        e2 == RunEnd(s, e1 + 2, FALSE)
    IN  IF /\ i + Len(WebHead) - 1 <= Len(s)
           /\ SubSeq(s, i, i + Len(WebHead) - 1) = WebHead
           /\ e1 >= o1
           /\ e1 + 1 <= Len(s) /\ s[e1 + 1] = "/"
           /\ e2 >= e1 + 2
        THEN [hasMatch |-> TRUE,
              cap1 |-> SubSeq(s, o1, e1),
              cap2 |-> SubSeq(s, e1 + 2, e2)]
        ELSE NoUrlMatch

\* QRegularExpression::match: the match at the leftmost position that has one
UrlMatch(s) ==
    IF \E i \in 1..Len(s) : UrlMatchAt(s, i).hasMatch
    THEN UrlMatchAt(s, CHOOSE i \in 1..Len(s) :
             /\ UrlMatchAt(s, i).hasMatch
             /\ \A k \in 1..(i - 1) : ~UrlMatchAt(s, k).hasMatch)
    ELSE NoUrlMatch

\* QStringLiteral("https://api.github.com/repos/%1/%2/releases/latest").arg(owner, repo)
ApiUrlOf(owner, repo) == ApiHead \o owner \o <<"/">> \o repo \o ApiTail

\* the repo as line 104-105 leaves it
RepoKeepGit(repo) == repo
RepoChopGit(repo) == IF EndsWith(repo, DotGit) THEN Chop(repo, 4) ELSE repo

toGithubApiUrl(u) ==
    IF Contains(u, ApiHost)
    THEN [ok |-> TRUE, val |-> u, err |-> NoError]
    ELSE LET m == UrlMatch(u) IN
         IF ~m.hasMatch
         THEN [ok |-> FALSE, val |-> Str0,
               err |-> [msg |-> "Invalid GitHub URL: ", arg |-> u]]
         ELSE [ok |-> TRUE, val |-> ApiUrlOf(m.cap1, RepoChopGit(m.cap2)),
               err |-> NoError]

Resolved(u) ==
    [done |-> TRUE, ok |-> toGithubApiUrl(u).ok, val |-> toGithubApiUrl(u).val,
     err |-> toGithubApiUrl(u).err]

\* res1 := toGithubApiUrl(url)
ResolveUrl ==
    /\ ~res1.done
    /\ res1' = Resolved(url)
    /\ UNCHANGED <<url, res2, resGit, parseVars, checkVars, cliVars>>

\* res2 := toGithubApiUrl(value of res1)
ResolveAgain ==
    /\ res1.done /\ res1.ok /\ ~res2.done
    /\ res2' = Resolved(res1.val)
    /\ UNCHANGED <<url, res1, resGit, parseVars, checkVars, cliVars>>

\* resGit := toGithubApiUrl(url + ".git")
ResolveGit ==
    /\ ~resGit.done
    /\ resGit' = Resolved(url \o DotGit)
    /\ UNCHANGED <<url, res1, res2, parseVars, checkVars, cliVars>>

\* the urls of SpecResolve: an optional leading character, a host part, and
\* up to MaxTail pieces after it
UrlLeads == {Str0, <<"x">>}
UrlHosts == {Str0, WebHead, ApiHead, ApiHost,
             <<"h", "t", "t", "p", ":", "/", "/", "g", "i", "t", "h", "u", "b",
               ".", "c", "o", "m", "/">>}
UrlPieces == {<<"o">>, <<"r">>, <<"/">>, DotGit}

RECURSIVE PiecesUpTo(_)
PiecesUpTo(n) ==
    IF n = 0 THEN {Str0}
    ELSE LET shorter == PiecesUpTo(n - 1) IN
         shorter \cup {s \o p : s \in shorter, p \in UrlPieces}

ResolveUrls == {l \o h \o t : l \in UrlLeads, h \in UrlHosts, t \in PiecesUpTo(MaxTail)}

-----------------------------------------------------------------------------
\* check_github_update: values

\* SemVer::operator<=> (defaulted): major, then minor, then patch
SemVerCompare(a, b) ==
    IF a.major # b.major THEN (IF a.major < b.major THEN -1 ELSE 1)
    ELSE IF a.minor # b.minor THEN (IF a.minor < b.minor THEN -1 ELSE 1)
    ELSE IF a.patch # b.patch THEN (IF a.patch < b.patch THEN -1 ELSE 1)
    ELSE 0

GreaterOrEqual(a, b) == SemVerCompare(a, b) >= 0
\* remote > local
Greater(a, b) == SemVerCompare(a, b) > 0

\* a field of the response object: absent, or a value of some JSON type
NoField == [type |-> "absent", str |-> Str0]
NoObject == [tag_name |-> NoField, message |-> NoField]
NoBody == [json |-> "empty", object |-> NoObject]
NoReply == [error |-> FALSE, errorString |-> Str0, body |-> NoBody]
NoInfo == [hasUpdate |-> FALSE, latestVersion |-> Str0]

\* QJsonDocument::fromJson(data): an object document only for a JSON object
fromJson(data) ==
    [isObject |-> data.json = "object",
     object   |-> IF data.json = "object" THEN data.object ELSE NoObject]

\* obj.contains(key), obj[key].isString(), obj[key].toString()
ObjContains(o, key) == o[key].type # "absent"
ObjIsString(o, key) == o[key].type = "string"
ObjToString(o, key) == IF o[key].type = "string" THEN o[key].str ELSE Str0

StepOrder == <<"resolve", "fetch", "extract", "parseLocal", "parseRemote", "compare">>

CheckIdle ==
    /\ pc = "idle" /\ repoUrl = Str0 /\ localVersion = Str0 /\ apiUrl = Str0
    /\ gets = 0 /\ reply = NoReply /\ obj = NoObject /\ latest = Str0
    /\ local = NoSemVer /\ remote = NoSemVer /\ info = NoInfo /\ err = NoError
    /\ steps = <<>>

CliIdle ==
    /\ mpc = "lib" /\ args = <<>> /\ jsonMode = FALSE /\ out = "" /\ exitCode = -1

-----------------------------------------------------------------------------
\* check_github_update: steps

\* line 192: QString apiUrl = toGithubApiUrl(repoUrl);
CheckResolve ==
    /\ pc = "resolve"
    /\ steps' = Append(steps, "resolve")
    /\ IF toGithubApiUrl(repoUrl).ok
       THEN /\ apiUrl' = toGithubApiUrl(repoUrl).val
            /\ pc' = "get"
            /\ err' = err
       ELSE /\ err' = toGithubApiUrl(repoUrl).err
            /\ pc' = "threw"
            /\ apiUrl' = apiUrl
    /\ UNCHANGED <<repoUrl, localVersion, gets, reply, obj, latest, local,
                   remote, info, parseVars, resolveVars, cliVars>>

\* http_get, lines 126-135: mgr.get(req), then loop.exec() waits
HttpGetSend ==
    /\ pc = "get"
    /\ steps' = Append(steps, "fetch")
    /\ gets' = gets + 1
    /\ pc' = "exec"
    /\ UNCHANGED <<repoUrl, localVersion, apiUrl, reply, obj, latest, local,
                   remote, info, err, parseVars, resolveVars, cliVars>>

\* what the transport can answer
ErrorStrings == {<<"t", "i", "m", "e", "o", "u", "t">>}
Messages == {<<"N", "o", "t", " ", "F", "o", "u", "n", "d">>}

RECURSIVE IntToDigits(_)
IntToDigits(n) ==
    IF n < 10 THEN <<DigitChars[n + 1]>>
    ELSE IntToDigits(n \div 10) \o <<DigitChars[(n % 10) + 1]>>

Dotted(a, b, c) == a \o <<".">> \o b \o <<".">> \o c

VersionTexts ==
    {Dotted(IntToDigits(a), IntToDigits(b), IntToDigits(c)) :
        a \in 0..MaxVer, b \in 0..MaxVer, c \in 0..MaxVer}
    \cup {<<"1", ".", "1">>, <<"x">>}
TagTexts ==
    {<<"v">> \o Dotted(IntToDigits(a), IntToDigits(b), IntToDigits(c)) :
        a \in 0..MaxVer, b \in 0..MaxVer, c \in 0..MaxVer}
    \cup {<<"v", "1", ".", "0">>, <<"x">>}

\* "--json"
JsonFlag == <<"-", "-", "j", "s", "o", "n">>

\* the words of the command lines of SpecCli
WebUrl == WebHead \o <<"o", "/", "r">>
CliWords == {JsonFlag, WebUrl, <<"1", ".", "0", ".", "0">>}

\* SemVer::parse of every text that reaches lines 212-213, computed once
ParseMemo ==
    [t \in VersionTexts \cup TagTexts \cup CliWords |-> SemVer_parse(t)]

TagFields == {NoField, [type |-> "number", str |-> Str0]}
                 \cup {[type |-> "string", str |-> t] : t \in TagTexts}
MessageFields == {NoField, [type |-> "number", str |-> Str0]}
                     \cup {[type |-> "string", str |-> m] : m \in Messages}

Bodies ==
    {[json |-> k, object |-> NoObject] : k \in {"invalid", "empty", "scalar", "array"}}
    \cup {[json |-> "object", object |-> [tag_name |-> t, message |-> m]] :
             t \in TagFields, m \in MessageFields}

Replies ==
    {[error |-> TRUE, errorString |-> e, body |-> NoBody] : e \in ErrorStrings}
    \cup {[error |-> FALSE, errorString |-> Str0, body |-> b] : b \in Bodies}

\* lines 131-135, the signal that is never connected to QEventLoop::quit
ReplyFinishedNoQuit ==
    /\ pc = "exec"
    /\ reply = NoReply
    /\ \E r \in Replies : reply' = r
    /\ UNCHANGED <<pc, repoUrl, localVersion, apiUrl, gets, obj, latest, local,
                   remote, info, err, steps, parseVars, resolveVars, cliVars>>

\* lines 131-135: QNetworkAccessManager::finished arrives, QEventLoop::quit
ReplyFinished ==
    /\ pc = "exec"
    /\ \E r \in Replies : reply' = r
    /\ pc' = "finished"
    /\ UNCHANGED <<repoUrl, localVersion, apiUrl, gets, obj, latest, local,
                   remote, info, err, steps, parseVars, resolveVars, cliVars>>

\* lines 137-145 with a second request after a network error
HttpGetRetry ==
    /\ pc = "finished"
    /\ IF reply.error
       THEN pc' = "get" /\ err' = err
       ELSE pc' = "json" /\ err' = err
    /\ UNCHANGED <<repoUrl, localVersion, apiUrl, gets, reply, obj, latest,
                   local, remote, info, steps, parseVars, resolveVars, cliVars>>

\* http_get, lines 137-145: throw on reply->error(), else return readAll()
HttpGetReturn ==
    /\ pc = "finished"
    /\ IF reply.error
       THEN /\ err' = [msg |-> "Network error: ", arg |-> reply.errorString]
            /\ pc' = "threw"
       ELSE /\ pc' = "json"
            /\ err' = err
    /\ UNCHANGED <<repoUrl, localVersion, apiUrl, gets, reply, obj, latest,
                   local, remote, info, steps, parseVars, resolveVars, cliVars>>

\* lines 195-199: doc = QJsonDocument::fromJson(data); obj = doc.object()
CheckJson ==
    /\ pc = "json"
    /\ steps' = Append(steps, "extract")
    /\ IF ~fromJson(reply.body).isObject
       THEN /\ err' = [msg |-> "GitHub API returned non-object JSON", arg |-> Str0]
            /\ pc' = "threw"
            /\ obj' = obj
       ELSE /\ obj' = fromJson(reply.body).object
            /\ pc' = "tag"
            /\ err' = err
    /\ UNCHANGED <<repoUrl, localVersion, apiUrl, gets, reply, latest, local,
                   remote, info, parseVars, resolveVars, cliVars>>

\* lines 201-210 with the message looked at before the tag_name
CheckTagMessageFirst ==
    /\ pc = "tag"
    /\ IF ObjContains(obj, "message") /\ ObjIsString(obj, "message")
       THEN /\ err' = [msg |-> "GitHub API error: ",
                       arg |-> ObjToString(obj, "message")]
            /\ pc' = "threw"
            /\ latest' = latest
       ELSE IF ~ObjContains(obj, "tag_name") \/ ~ObjIsString(obj, "tag_name")
       THEN /\ err' = [msg |-> "GitHub API returned no valid tag_name",
                       arg |-> Str0]
            /\ pc' = "threw"
            /\ latest' = latest
       ELSE /\ latest' = ObjToString(obj, "tag_name")
            /\ pc' = "parseLocal"
            /\ err' = err
    /\ UNCHANGED <<repoUrl, localVersion, apiUrl, gets, reply, obj, local,
                   remote, info, steps, parseVars, resolveVars, cliVars>>

\* lines 201-210: latest = obj["tag_name"].toString(), or one of two errors
CheckTag ==
    /\ pc = "tag"
    /\ IF ~ObjContains(obj, "tag_name") \/ ~ObjIsString(obj, "tag_name")
       THEN /\ IF ObjContains(obj, "message") /\ ObjIsString(obj, "message")
               THEN err' = [msg |-> "GitHub API error: ",
                            arg |-> ObjToString(obj, "message")]
               ELSE err' = [msg |-> "GitHub API returned no valid tag_name",
                            arg |-> Str0]
            /\ pc' = "threw"
            /\ latest' = latest
       ELSE /\ latest' = ObjToString(obj, "tag_name")
            /\ pc' = "parseLocal"
            /\ err' = err
    /\ UNCHANGED <<repoUrl, localVersion, apiUrl, gets, reply, obj, local,
                   remote, info, steps, parseVars, resolveVars, cliVars>>

\* line 212 with the failure of the local parse put off
CheckParseLocalLenient ==
    /\ pc = "parseLocal"
    /\ steps' = Append(steps, "parseLocal")
    /\ local' = ParseMemo[localVersion].sv
    /\ pc' = "parseRemote"
    /\ UNCHANGED <<repoUrl, localVersion, apiUrl, gets, reply, obj, latest,
                   remote, info, err, parseVars, resolveVars, cliVars>>

\* line 212: SemVer local = SemVer::parse(localVersion);
CheckParseLocal ==
    /\ pc = "parseLocal"
    /\ steps' = Append(steps, "parseLocal")
    /\ IF ParseMemo[localVersion].ok
       THEN /\ local' = ParseMemo[localVersion].sv
            /\ pc' = "parseRemote"
            /\ err' = err
       ELSE /\ err' = ParseMemo[localVersion].err
            /\ pc' = "threw"
            /\ local' = local
    /\ UNCHANGED <<repoUrl, localVersion, apiUrl, gets, reply, obj, latest,
                   remote, info, parseVars, resolveVars, cliVars>>

\* line 213: SemVer remote = SemVer::parse(latest);
CheckParseRemote ==
    /\ pc = "parseRemote"
    /\ steps' = Append(steps, "parseRemote")
    /\ IF ParseMemo[latest].ok
       THEN /\ remote' = ParseMemo[latest].sv
            /\ pc' = "compare"
            /\ err' = err
       ELSE /\ err' = ParseMemo[latest].err
            /\ pc' = "threw"
            /\ remote' = remote
    /\ UNCHANGED <<repoUrl, localVersion, apiUrl, gets, reply, obj, latest,
                   local, info, parseVars, resolveVars, cliVars>>

\* line 215: return { remote > local, latest };
CheckCompare ==
    /\ pc = "compare"
    /\ steps' = Append(steps, "compare")
    /\ info' = [hasUpdate |-> Greater(remote, local), latestVersion |-> latest]
    /\ pc' = "returned"
    /\ UNCHANGED <<repoUrl, localVersion, apiUrl, gets, reply, obj, latest,
                   local, remote, err, parseVars, resolveVars, cliVars>>

-----------------------------------------------------------------------------
\* main (cli_main.cpp)

\* lines 31-59: read the arguments; return 1 or call check_github_update
MainArgs ==
    /\ mpc = "start"
    /\ IF Len(args) >= 2 /\ args[2] = JsonFlag
       THEN /\ jsonMode' = TRUE
            /\ IF Len(args) < 4
               THEN /\ out' = "usage"
                    /\ exitCode' = 1
                    /\ mpc' = "exited"
                    /\ UNCHANGED <<pc, repoUrl, localVersion>>
               ELSE /\ repoUrl' = args[3]
                    /\ localVersion' = args[4]
                    /\ mpc' = "check"
                    /\ pc' = "resolve"
                    /\ UNCHANGED <<out, exitCode>>
       ELSE /\ jsonMode' = FALSE
            /\ IF Len(args) < 3
               THEN /\ out' = "usage"
                    /\ exitCode' = 1
                    /\ mpc' = "exited"
                    /\ UNCHANGED <<pc, repoUrl, localVersion>>
               ELSE /\ repoUrl' = args[2]
                    /\ localVersion' = args[3]
                    /\ mpc' = "check"
                    /\ pc' = "resolve"
                    /\ UNCHANGED <<out, exitCode>>
    /\ UNCHANGED <<args, apiUrl, gets, reply, obj, latest, local, remote, info,
                   err, steps, parseVars, resolveVars>>

\* lines 63-78 returning 0 whatever the result
MainReturnZero ==
    /\ mpc = "check" /\ pc = "returned"
    /\ out' = IF jsonMode THEN "result-json" ELSE "result"
    /\ exitCode' = 0
    /\ mpc' = "exited"
    /\ UNCHANGED <<args, jsonMode, checkVars, parseVars, resolveVars>>

\* lines 63-78: check_github_update returned; print, return 2 or 0
MainReturn ==
    /\ mpc = "check" /\ pc = "returned"
    /\ out' = IF jsonMode THEN "result-json" ELSE "result"
    /\ exitCode' = IF info.hasUpdate THEN 2 ELSE 0
    /\ mpc' = "exited"
    /\ UNCHANGED <<args, jsonMode, checkVars, parseVars, resolveVars>>

\* lines 80-90: catch (const std::exception&); print, return 3
MainCatch ==
    /\ mpc = "check" /\ pc = "threw"
    /\ out' = IF jsonMode THEN "error-json" ELSE "error"
    /\ exitCode' = 3
    /\ mpc' = "exited"
    /\ UNCHANGED <<args, jsonMode, checkVars, parseVars, resolveVars>>

\* the command lines of SpecCli

RECURSIVE WordsUpTo(_)
WordsUpTo(n) ==
    IF n = 0 THEN {<<>>}
    ELSE LET shorter == WordsUpTo(n - 1) IN
         shorter \cup {Append(a, w) : a \in shorter, w \in CliWords}

CommandLines == {<<<<"p">>>> \o a : a \in WordsUpTo(MaxArgs)}

-----------------------------------------------------------------------------
\* Specifications

\* the repository urls of Spec
CheckUrls == {WebUrl, WebUrl \o DotGit, ApiUrlOf(<<"o">>, <<"r">>), <<"x">>}

\* one call check_github_update(repoUrl, localVersion)
Init ==
    /\ ParseIdle /\ ResolveIdle /\ CliIdle
    /\ pc = "resolve"
    /\ repoUrl \in CheckUrls
    /\ localVersion \in VersionTexts
    /\ apiUrl = Str0 /\ gets = 0 /\ reply = NoReply /\ obj = NoObject
    /\ latest = Str0 /\ local = NoSemVer /\ remote = NoSemVer /\ info = NoInfo
    /\ err = NoError /\ steps = <<>>

CheckStep ==
    \/ CheckResolve
    \/ HttpGetSend
    \/ HttpGetReturn
    \/ CheckJson
    \/ CheckTag
    \/ CheckParseLocal
    \/ CheckParseRemote
    \/ CheckCompare

Next == CheckStep \/ ReplyFinished

Spec == Init /\ [][Next]_vars

\* the program runs on while it can; the transport answers the request
FairSpec == Spec /\ WF_vars(CheckStep) /\ WF_vars(ReplyFinished)

\* one run of the command line program
InitCli ==
    /\ ParseIdle /\ ResolveIdle /\ CheckIdle
    /\ mpc = "start"
    /\ args \in CommandLines
    /\ jsonMode = FALSE /\ out = "" /\ exitCode = -1

NextCli == MainArgs \/ CheckStep \/ ReplyFinished \/ MainReturn \/ MainCatch

SpecCli == InitCli /\ [][NextCli]_vars

\* SemVer::parse on every text of ParseTexts
InitParse ==
    /\ text \in ParseTexts /\ runs = <<>> /\ parsed = NotParsed
    /\ ResolveIdle /\ CheckIdle /\ CliIdle

NextParse == ParseText

SpecParse == InitParse /\ [][NextParse]_vars

\* the magnitudes of SpecTriple, written without leading zeros
Magnitudes ==
    {<<"0">>, <<"7">>, <<"4", "2">>, IntMaxDigits,
     <<"2", "1", "4", "7", "4", "8", "3", "6", "4", "8">>,
     <<"9", "9", "9", "9", "9", "9", "9", "9", "9", "9", "9", "9">>}

RECURSIVE Zeros(_)
Zeros(n) == IF n = 0 THEN Str0 ELSE <<"0">> \o Zeros(n - 1)

DigitRuns == {Zeros(z) \o m : z \in 0..MaxZeros, m \in Magnitudes}

\* SemVer::parse on "<major>.<minor>.<patch>"
InitTriple ==
    /\ runs \in DigitRuns \X DigitRuns \X DigitRuns
    /\ text = Dotted(runs[1], runs[2], runs[3])
    /\ parsed = NotParsed
    /\ ResolveIdle /\ CheckIdle /\ CliIdle

NextTriple == ParseText

SpecTriple == InitTriple /\ [][NextTriple]_vars

\* toGithubApiUrl on every url of ResolveUrls
InitResolve ==
    /\ url \in ResolveUrls
    /\ res1 = NotResolved /\ res2 = NotResolved /\ resGit = NotResolved
    /\ ParseIdle /\ CheckIdle /\ CliIdle

NextResolve == ResolveUrl \/ ResolveAgain \/ ResolveGit

SpecResolve == InitResolve /\ [][NextResolve]_vars

-----------------------------------------------------------------------------
\* Properties of check_github_update (Spec, FairSpec)

Done == {"returned", "threw"}

\* (major, minor, patch) of r strictly above that of l, major first
LexGreater(r, l) ==
    \/ r.major > l.major
    \/ r.major = l.major /\ r.minor > l.minor
    \/ r.major = l.major /\ r.minor = l.minor /\ r.patch > l.patch

\* C1: when check_github_update returns, hasUpdate is TRUE exactly when the
\* parse of the returned tag is strictly greater than the parse of the local
\* version, comparing major, then minor, then patch; equal or lower: FALSE.
HasUpdateIffNewer ==
    pc = "returned" =>
        /\ info.latestVersion = reply.body.object.tag_name.str
        /\ info.hasUpdate = LexGreater(SemVer_parse(info.latestVersion).sv,
                                       SemVer_parse(localVersion).sv)

\* C1 happens: a lower major with a higher minor gives no update
HasUpdateWitness ==
    /\ pc = "returned" /\ ~info.hasUpdate
    /\ remote.major < local.major /\ remote.minor > local.minor

\* the step of StepOrder that fails first on these inputs, 0 when none does
FirstFailingStep ==
    IF ~toGithubApiUrl(repoUrl).ok THEN 1
    ELSE IF reply.error THEN 2
    ELSE IF reply.body.json # "object"
            \/ reply.body.object.tag_name.type # "string" THEN 3
    ELSE IF ~SemVer_parse(localVersion).ok THEN 4
    ELSE IF ~SemVer_parse(reply.body.object.tag_name.str).ok THEN 5
    ELSE 0

ErrorsOfStep(k) ==
    CASE k = 1 -> {[msg |-> "Invalid GitHub URL: ", arg |-> repoUrl]}
      [] k = 2 -> {[msg |-> "Network error: ", arg |-> reply.errorString]}
      [] k = 3 -> {[msg |-> "GitHub API returned non-object JSON", arg |-> Str0],
                   [msg |-> "GitHub API returned no valid tag_name", arg |-> Str0],
                   [msg |-> "GitHub API error: ",
                    arg |-> reply.body.object.message.str]}
      [] k = 4 -> {[msg |-> "Invalid SemVer: ", arg |-> localVersion]}
      [] k = 5 -> {[msg |-> "Invalid SemVer: ",
                    arg |-> reply.body.object.tag_name.str]}
      [] OTHER -> {}

\* C2: the steps are entered in the order resolve, fetch, extract, parse
\* local, parse remote, compare, each only after the ones before it succeeded;
\* a failing call throws the error of the first failing step and enters no
\* later step; a returning call entered all six.
StepsInOrder ==
    /\ Len(steps) <= Len(StepOrder)
    /\ steps = SubSeq(StepOrder, 1, Len(steps))
    /\ pc = "threw" =>
          /\ FirstFailingStep # 0
          /\ Len(steps) = FirstFailingStep
          /\ err \in ErrorsOfStep(FirstFailingStep)
    /\ pc = "returned" => FirstFailingStep = 0 /\ steps = StepOrder

\* C2 happens: the missing tag is reported although the local version is
\* invalid as well
StepsInOrderWitness ==
    /\ pc = "threw"
    /\ err.msg = "GitHub API returned no valid tag_name"
    /\ ~SemVer_parse(localVersion).ok

\* C3: a call makes at most one request: none when the url is rejected,
\* exactly one otherwise, whichever later step fails.
AtMostOneFetch ==
    /\ gets <= 1
    /\ pc \in Done => gets = (IF toGithubApiUrl(repoUrl).ok THEN 1 ELSE 0)

\* C3 happens: a call that failed at the transport made its one request
AtMostOneFetchWitness == pc = "threw" /\ reply.error /\ gets = 1

\* the extraction (lines 195-210) has run to its end
Extracted == Len(steps) >= 3 /\ pc # "tag"
ExtractFailed == pc = "threw" /\ Len(steps) = 3

\* C4: the extraction ends in exactly one of four ways, in this priority:
\* no top-level object: non-object error; a string tag_name: that string,
\* unchanged, whatever message holds; else a string message: the API error
\* with that message; else: the no-tag_name error.
ExtractOutcome ==
    Extracted =>
        LET body == reply.body
            tag  == body.object.tag_name
            mes  == body.object.message
        IN  IF body.json # "object"
            THEN /\ ExtractFailed
                 /\ err = [msg |-> "GitHub API returned non-object JSON",
                           arg |-> Str0]
            ELSE IF tag.type = "string"
            THEN ~ExtractFailed /\ latest = tag.str
            ELSE IF mes.type = "string"
            THEN /\ ExtractFailed
                 /\ err = [msg |-> "GitHub API error: ", arg |-> mes.str]
            ELSE /\ ExtractFailed
                 /\ err = [msg |-> "GitHub API returned no valid tag_name",
                           arg |-> Str0]

\* C4 happens: a string tag_name wins over a string message
ExtractOutcomeWitness ==
    /\ pc = "returned"
    /\ reply.body.object.message.type = "string"
    /\ latest = reply.body.object.tag_name.str

DoneIsFinal == (pc \in Done) => (pc' = pc /\ err' = err /\ info' = info)

\* C10: with the transport answering the one request, every call ends, in
\* "returned" with a result and no error or in "threw" with an error and no
\* result; once ended nothing changes; before that, only the wait for the
\* reply can hold the call up.
CheckTerminates ==
    /\ <>(pc \in Done)
    /\ [](pc = "returned" => err = NoError)
    /\ [](pc = "threw" => err # NoError /\ info = NoInfo)
    /\ [](pc \notin Done \cup {"exec"} => ENABLED CheckStep)
    /\ [][DoneIsFinal]_vars

\* C10 happens: a call that waited for its reply has returned
CheckTerminatesWitness == pc = "returned" /\ gets = 1 /\ Len(steps) = 6

-----------------------------------------------------------------------------
\* Properties of main (SpecCli)

\* the arguments after the program name and an optional leading --json
Positionals ==
    IF Len(args) >= 2 /\ args[2] = JsonFlag
    THEN SubSeq(args, 3, Len(args))
    ELSE SubSeq(args, 2, Len(args))

\* C9: main returns 1 exactly when fewer than two positional arguments are
\* given, and then check_github_update is not called and no request is made;
\* otherwise 2 exactly when the call returned hasUpdate, 0 exactly when it
\* returned without, 3 exactly when it threw; no other value.
ExitCodes ==
    /\ mpc # "exited" => exitCode = -1
    /\ mpc = "exited" =>
          /\ exitCode \in {0, 1, 2, 3}
          /\ (exitCode = 1) = (Len(Positionals) < 2)
          /\ exitCode = 1 => pc = "idle" /\ gets = 0 /\ steps = <<>>
          /\ (exitCode = 2) = (pc = "returned" /\ info.hasUpdate)
          /\ (exitCode = 0) = (pc = "returned" /\ ~info.hasUpdate)
          /\ (exitCode = 3) = (pc = "threw")

\* C9 happens: a run with --json that found an update returned 2
ExitCodesWitness == mpc = "exited" /\ exitCode = 2 /\ jsonMode

-----------------------------------------------------------------------------
\* Properties of toGithubApiUrl (SpecResolve)

StartsWith(s, head) == Len(s) >= Len(head) /\ SubSeq(s, 1, Len(head)) = head

\* u holds "https://github.com/<owner>/<repo>" at position i, owner ending
\* at a and repo at b, both non-empty, free of '/' and maximal
WebRepoAt(u, i, a, b) ==
    /\ i + Len(WebHead) - 1 <= Len(u)
    /\ SubSeq(u, i, i + Len(WebHead) - 1) = WebHead
    /\ a >= i + Len(WebHead) /\ b >= a + 2 /\ b <= Len(u)
    /\ \A k \in (i + Len(WebHead))..a : u[k] # "/"
    /\ u[a + 1] = "/"
    /\ \A k \in (a + 2)..b : u[k] # "/"
    /\ b < Len(u) => u[b + 1] = "/"

HasWebRepo(u) == \E i, a, b \in 1..Len(u) : WebRepoAt(u, i, a, b)

\* repo without one trailing ".git"
WithoutDotGit(repo) ==
    IF Len(repo) >= 4 /\ SubSeq(repo, Len(repo) - 3, Len(repo)) = DotGit
    THEN SubSeq(repo, 1, Len(repo) - 4)
    ELSE repo

\* the endpoint of the leftmost "https://github.com/<owner>/<repo>" of u
EndpointOf(u) ==
    LET i == CHOOSE i \in 1..Len(u) :
                 /\ \E a, b \in 1..Len(u) : WebRepoAt(u, i, a, b)
                 /\ \A j \in 1..(i - 1) :
                        ~\E a, b \in 1..Len(u) : WebRepoAt(u, j, a, b)
        ab == CHOOSE ab \in (1..Len(u)) \X (1..Len(u)) :
                  WebRepoAt(u, i, ab[1], ab[2])
    IN  ApiHead \o SubSeq(u, i + Len(WebHead), ab[1]) \o <<"/">>
            \o WithoutDotGit(SubSeq(u, ab[1] + 2, ab[2])) \o ApiTail

\* C5: a successful toGithubApiUrl(url) is url itself when url contains
\* "api.github.com", and otherwise the releases/latest endpoint of the first
\* owner and repo after "https://github.com/", one trailing ".git" removed
\* from repo; so url + ".git" resolves like url when url ends in a repo
\* without ".git", and resolving the result again changes nothing.
ResolveResult ==
    /\ res1.done /\ res1.ok =>
          /\ res1.err = NoError
          /\ IF Contains(url, ApiHost) THEN res1.val = url
             ELSE HasWebRepo(url) /\ res1.val = EndpointOf(url)
    /\ res2.done => res2 = res1
    /\ (res1.done /\ res1.ok /\ resGit.done
            /\ ~Contains(url, ApiHost) /\ ~EndsWith(url, DotGit)) =>
          resGit = res1
    /\ (res1.done /\ resGit.done /\ url = WebUrl) =>
          /\ res1.val = ApiHead \o <<"o", "/", "r">> \o ApiTail
          /\ resGit.val = res1.val

\* C5 happens: "https://github.com/o/r.git" has been resolved, twice over
ResolveResultWitness ==
    /\ url = WebUrl \o DotGit
    /\ res1.done /\ res1.ok /\ res2.done /\ resGit.done
    /\ res1.val = ApiHead \o <<"o", "/", "r">> \o ApiTail

\* C6: toGithubApiUrl(url) succeeds only for a url that starts with
\* "https://api.github.com/repos/" or with "https://github.com/<owner>/<repo>",
\* and throws for every other url.
ResolveRejectsOthers ==
    res1.done /\ res1.ok =>
        \/ StartsWith(url, ApiHead)
        \/ \E a, b \in 1..Len(url) : WebRepoAt(url, 1, a, b)

-----------------------------------------------------------------------------
\* Properties of SemVer::parse (SpecParse, SpecTriple)

\* s holds digits from a to b, then '.', then a digit
VersionAt(s, a, b) ==
    /\ a <= b /\ b + 2 <= Len(s)
    /\ \A k \in a..b : IsDigit(s[k])
    /\ s[b + 1] = "."
    /\ IsDigit(s[b + 2])

HasVersion(s) == \E a, b \in 1..Len(s) : VersionAt(s, a, b)

\* last index of the digits of s that start at position c
DigitsUpTo(s, c) ==
    CHOOSE d \in c..Len(s) :
        /\ \A k \in c..d : IsDigit(s[k])
        /\ d < Len(s) => ~IsDigit(s[d + 1])

\* base-10 value of the digits s[a..b]
RECURSIVE ValueOf(_, _, _)
ValueOf(s, a, b) ==
    IF b < a THEN 0 ELSE ValueOf(s, a, b - 1) * 10 + DigitVal(s[b])

\* the version of the leftmost occurrence in s
VersionOf(s) ==
    LET a == CHOOSE a \in 1..Len(s) :
                 /\ \E b \in 1..Len(s) : VersionAt(s, a, b)
                 /\ \A j \in 1..(a - 1) : ~\E b \in 1..Len(s) : VersionAt(s, j, b)
        b == CHOOSE b \in 1..Len(s) : VersionAt(s, a, b)
        d == DigitsUpTo(s, b + 2)
    IN  [major |-> ValueOf(s, a, b),
         minor |-> ValueOf(s, b + 2, d),
         patch |-> IF d + 2 <= Len(s) /\ s[d + 1] = "." /\ IsDigit(s[d + 2])
                   THEN ValueOf(s, d + 2, DigitsUpTo(s, d + 2))
                   ELSE 0]

TripleExact ==
    parsed.done =>
        /\ parsed.ok
        /\ IntToDigits(parsed.sv.major) = StripZeros(runs[1])
        /\ IntToDigits(parsed.sv.minor) = StripZeros(runs[2])
        /\ IntToDigits(parsed.sv.patch) = StripZeros(runs[3])

====
